---- MODULE Spec2Model ----
(***************************************************************************)
(* Tag-aware incremental cache (S3Cache, src/unnamed/part_000) and the     *)
(* revalidation dispatch / header policy of                                *)
(* src/packages/open-next/src/core/routing/util.ts.                        *)
(*                                                                         *)
(* Conventions.                                                            *)
(*  - An optional JavaScript value is a sequence: <<>> is undefined and     *)
(*    <<v>> is the value v.                                                *)
(*  - A JavaScript string that the code takes apart (a Buffer rendered to  *)
(*    text, the x-next-cache-tags header) is a sequence of code points or  *)
(*    of one-character strings; a string the code only compares is a TLA+  *)
(*    string.                                                              *)
(*  - A Buffer is a sequence of bytes 0..255.                              *)
(*  - Timestamps are milliseconds; the clock advances in whole ticks of    *)
(*    MsPerSecond milliseconds.                                              *)
(***************************************************************************)
EXTENDS Integers, Sequences, FiniteSets, TLC

VARIABLES
    store,                    \* globalThis.incrementalCache: key -> stored record + last write time
    pending,                  \* artifact-store writes issued without await, still in flight
    tagIndex,                 \* globalThis.tagCache: set of {path, tag, revalidatedAt} items
    now,                      \* the clock, in ticks
    disableIncrementalCache,  \* globalThis.disableIncrementalCache
    disableDynamoDBCache,     \* globalThis.disableDynamoDBCache
    lastModified,             \* globalThis.lastModified
    lastOp,                   \* observation of the most recent S3Cache call
    written,                  \* observation: per key, the artifact of the last completed set
    everDerived,              \* observation: per key, the tags derived by completed sets
    pc,                       \* per request: position in the response life cycle
    rawPath,                  \* per request: internalEvent.rawPath
    headers,                  \* per request: the outgoing response headers
    internalMeta,             \* per request: the NextInternalRequestMeta of its req
    queue,                    \* messages passed to globalThis.queue.send, in order
    laneLog,                  \* observation: the calls of generateMessageGroupId, in order
    policyLog                 \* observation: the applications of fixISRHeaders, in order

vars == <<store, pending, tagIndex, now, disableIncrementalCache, disableDynamoDBCache,
          lastModified, lastOp, written, everDerived,
          pc, rawPath, internalMeta, headers, queue, laneLog, policyLog>>

cacheVars == <<store, pending, tagIndex, now, lastModified, lastOp, written,
               everDerived>>
flagVars == <<disableIncrementalCache, disableDynamoDBCache>>
reqVars == <<pc, rawPath, internalMeta, headers, queue>>
laneVars == <<laneLog>>
policyVars == <<policyLog>>

(***************************************************************************)
(* Bounds of the model.                                                    *)
(***************************************************************************)
MaxTime == 2          \* the clock runs from tick 1 to tick MaxTime
MaxPending == 1       \* un-awaited artifact writes in flight at once
MaxCalls == 2         \* calls of a pure function that are observed in a row

MsPerSecond == 1000   \* a tick of the clock is one second: Date.now() = now * MsPerSecond

Keys == {"/a", "/b"}
Requests == {"r1", "r2"}

None == <<>>
Some(v) == <<v>>
IsSome(o) == o # <<>>
Val(o) == o[1]

DateNow(t) == t * MsPerSecond

(***************************************************************************)
(* Buffer <-> string transcoding (Buffer.prototype.toString, Buffer.from). *)
(***************************************************************************)
ReplacementChar == 65533    \* U+FFFD, what an undecodable byte becomes

\* buf.toString("utf8"), for buffers of ASCII bytes and of bytes that can
\* neither start nor continue a UTF-8 sequence (0xF8..0xFF)
Utf8Decode(buf) == [i \in 1..Len(buf) |-> IF buf[i] < 128 THEN buf[i] ELSE ReplacementChar]

Utf8EncodeChar(cp) ==
    IF cp < 128 THEN <<cp>>
    ELSE IF cp < 2048 THEN <<192 + (cp \div 64), 128 + (cp % 64)>>
    ELSE <<224 + (cp \div 4096), 128 + ((cp \div 64) % 64), 128 + (cp % 64)>>

\* Buffer.from(str, "utf8") for strings of the basic multilingual plane
RECURSIVE Utf8Encode(_)
Utf8Encode(str) ==
    IF str = <<>> THEN <<>>
    ELSE Utf8EncodeChar(Head(str)) \o Utf8Encode(Tail(str))

B64Char(v) ==
    IF v < 26 THEN 65 + v
    ELSE IF v < 52 THEN 97 + (v - 26)
    ELSE IF v < 62 THEN 48 + (v - 52)
    ELSE IF v = 62 THEN 43 ELSE 47

B64Val(c) ==
    IF c >= 65 /\ c <= 90 THEN c - 65
    ELSE IF c >= 97 /\ c <= 122 THEN c - 97 + 26
    ELSE IF c >= 48 /\ c <= 57 THEN c - 48 + 52
    ELSE IF c = 43 THEN 62
    ELSE IF c = 47 THEN 63
    ELSE -1

B64Pad == 61    \* "="

\* buf.toString("base64")
RECURSIVE Base64Encode(_)
Base64Encode(buf) ==
    IF Len(buf) = 0 THEN <<>>
    ELSE IF Len(buf) = 1 THEN
        <<B64Char(buf[1] \div 4), B64Char((buf[1] % 4) * 16), B64Pad, B64Pad>>
    ELSE IF Len(buf) = 2 THEN
        <<B64Char(buf[1] \div 4), B64Char((buf[1] % 4) * 16 + (buf[2] \div 16)),
          B64Char((buf[2] % 16) * 4), B64Pad>>
    ELSE
        <<B64Char(buf[1] \div 4), B64Char((buf[1] % 4) * 16 + (buf[2] \div 16)),
          B64Char((buf[2] % 16) * 4 + (buf[3] \div 64)), B64Char(buf[3] % 64)>>
        \o Base64Encode(SubSeq(buf, 4, Len(buf)))

\* the sextets of a base64 string: decoding stops at the first "=", and a
\* character outside the alphabet is skipped
RECURSIVE B64Sextets(_)
B64Sextets(str) ==
    IF str = <<>> \/ Head(str) = B64Pad THEN <<>>
    ELSE IF B64Val(Head(str)) < 0 THEN B64Sextets(Tail(str))
    ELSE <<B64Val(Head(str))>> \o B64Sextets(Tail(str))

RECURSIVE B64Bytes(_)
B64Bytes(sx) ==
    IF Len(sx) < 2 THEN <<>>
    ELSE IF Len(sx) = 2 THEN <<sx[1] * 4 + (sx[2] \div 16)>>
    ELSE IF Len(sx) = 3 THEN
        <<sx[1] * 4 + (sx[2] \div 16), (sx[2] % 16) * 16 + (sx[3] \div 4)>>
    ELSE
        <<sx[1] * 4 + (sx[2] \div 16), (sx[2] % 16) * 16 + (sx[3] \div 4),
          (sx[3] % 4) * 64 + sx[4]>>
        \o B64Bytes(SubSeq(sx, 5, Len(sx)))

\* Buffer.from(str, "base64")
Base64Decode(str) == B64Bytes(B64Sextets(str))

BufferToString(buf, encoding) ==
    IF encoding = "base64" THEN Base64Encode(buf) ELSE Utf8Decode(buf)

BufferFrom(str, encoding) ==
    IF encoding = "base64" THEN Base64Decode(str) ELSE Utf8Encode(str)

\* String(x) of an optional string: String(undefined) is "undefined"
String(o) == IF IsSome(o) THEN Val(o) ELSE "undefined"

\* isBinaryContentType of adapters/binary.js: a content type is binary when
\* it is one of the listed binary MIME types; anything else is text
BinaryMimeTypes == {"image/png", "application/octet-stream"}
isBinaryContentType(contentType) == contentType \in BinaryMimeTypes

(***************************************************************************)
(* Cache values (IncrementalCacheValue) and call contexts.                 *)
(*                                                                         *)
(*  ROUTE    [kind, body, status, headers]                                 *)
(*  PAGE     [kind, html, pageData, status, headers]                       *)
(*  REDIRECT [kind, props]                                                 *)
(*  FETCH    [kind, data: [headers, body, url, status, tags], revalidate]  *)
(*  IMAGE    [kind, etag, extension]                                       *)
(*  null and undefined are records without a kind field.                   *)
(* A header map is [contentType, cacheTags], the two headers the cache     *)
(* reads ("content-type", "x-next-cache-tags"), each optional.  pageData   *)
(* is [t, v] with t its typeof.                                            *)
(***************************************************************************)
NullData == [absent |-> "null"]
UndefinedData == [absent |-> "undefined"]

\* data?.kind
KindOf(data) == IF "kind" \in DOMAIN data THEN data.kind ELSE "undefined"

Hdrs(ct, tags) == [contentType |-> ct, cacheTags |-> tags]

RouteValue(body, status, hdrs) ==
    [kind |-> "ROUTE", body |-> body, status |-> Some(status), headers |-> Some(hdrs)]
PageValue(html, pageData, status, hdrs) ==
    [kind |-> "PAGE", html |-> html, pageData |-> pageData, status |-> status,
     headers |-> hdrs]
RedirectValue(props) == [kind |-> "REDIRECT", props |-> props]
FetchValue(body, tags) ==
    [kind |-> "FETCH",
     data |-> [headers |-> Hdrs(None, None), body |-> body, url |-> "https://api/x",
               status |-> None, tags |-> tags],
     revalidate |-> 60]
ImageValue == [kind |-> "IMAGE", etag |-> "e1", extension |-> "png"]

Ctx(tags) == [tags |-> tags]

\* str.split(sep) on a string given as a sequence of characters
RECURSIVE Split(_, _)
Split(str, sep) ==
    IF \A i \in 1..Len(str) : str[i] # sep THEN <<str>>
    ELSE LET i == CHOOSE j \in 1..Len(str) :
                      str[j] = sep /\ \A h \in 1..(j - 1) : str[h] # sep
         IN <<SubSeq(str, 1, i - 1)>> \o Split(SubSeq(str, i + 1, Len(str)), sep)

Range(seq) == {seq[i] : i \in 1..Len(seq)}

\* arr.filter((x) => !drop.includes(x))
RECURSIVE Filter(_, _)
Filter(seq, drop) ==
    IF seq = <<>> THEN <<>>
    ELSE IF Head(seq) \in drop THEN Filter(Tail(seq), drop)
    ELSE <<Head(seq)>> \o Filter(Tail(seq), drop)

RECURSIVE SetToSeq(_)
SetToSeq(S) ==
    IF S = {} THEN <<>>
    ELSE LET x == CHOOSE y \in S : TRUE IN <<x>> \o SetToSeq(S \ {x})

(***************************************************************************)
(* The collaborators: the artifact store (IncrementalCache) and the tag    *)
(* index (TagCache).  Only their interfaces are used by S3Cache.           *)
(***************************************************************************)
Missing == [present |-> FALSE]
Stored(value, at) == [present |-> TRUE, value |-> value, lastModified |-> at]

UndefinedValue == [undefined |-> TRUE]

\* client.get(key, isFetch): the record and its last write time; a key never
\* written or deleted yields no value and no time
ClientGet(st, key) ==
    IF st[key].present
    THEN [value |-> st[key].value, lastModified |-> Some(st[key].lastModified)]
    ELSE [value |-> UndefinedValue, lastModified |-> None]

\* client.set(key, value, isFetch) at time t
ClientSet(st, key, value, t) == [st EXCEPT ![key] = Stored(value, DateNow(t))]

\* client.delete(key)
ClientDelete(st, key) == [st EXCEPT ![key] = Missing]

StaleSentinel == -1

\* tagClient.getLastModified(key, lastModified) at time t: the sentinel when
\* some item of the key was stamped after lastModified, else lastModified
\* (the current time when the artifact store reported none)
TagGetLastModified(ti, key, lm, t) ==
    LET since == IF IsSome(lm) THEN Val(lm) ELSE 0
    IN IF \E b \in ti : b.path = key /\ b.revalidatedAt > since
       THEN StaleSentinel
       ELSE IF IsSome(lm) THEN Val(lm) ELSE DateNow(t)

\* tagClient.getByPath(key): the tags bound to the key
TagGetByPath(ti, key) == {b.tag : b \in {x \in ti : x.path = key}}

\* tagClient.getByTag(tag): the keys bound to the tag
TagGetByTag(ti, tag) == {b.path : b \in {x \in ti : x.tag = tag}}

\* tagClient.writeTags(items) at time t: one item per (path, tag), stamped
\* with the time of the write; an item already there is replaced
TagWriteTags(ti, items, t) ==
    {b \in ti : \A i \in 1..Len(items) :
                    ~(items[i].path = b.path /\ items[i].tag = b.tag)}
    \cup {[path |-> items[i].path, tag |-> items[i].tag, revalidatedAt |-> DateNow(t)]
          : i \in 1..Len(items)}

(***************************************************************************)
(* S3Cache (src/unnamed/part_000).                                         *)
(*                                                                         *)
(* Every collaborator call may throw: the parameter fail of a handler is   *)
(* the position of the collaborator call that throws in this invocation    *)
(* (0: none does).                                                         *)
(***************************************************************************)
Null == [hit |-> FALSE]
Entry(lm, value) == [hit |-> TRUE, lastModified |-> lm, value |-> value]

\* options of get: undefined, a boolean, or {fetchCache?, kindHint?}
NoOptions == [t |-> "undefined"]
BoolOption(b) == [t |-> "boolean", b |-> b]
ObjOption(fetchCache, kindHint) ==
    [t |-> "object", fetchCache |-> fetchCache, kindHint |-> kindHint]

\* the truthiness of isFetchCache in get
isFetchCache(options) ==
    IF options.t = "object"
    THEN IF IsSome(options.kindHint)
         THEN Val(options.kindHint) = "fetch"
         ELSE IsSome(options.fetchCache) /\ Val(options.fetchCache)
    ELSE options.t = "boolean" /\ options.b

\* cacheData?.type, cacheData?.meta, meta?.status, meta?.headers,
\* headers?.["content-type"]
TypeOf(cacheData) == IF "type" \in DOMAIN cacheData THEN cacheData.type ELSE "undefined"
MetaOf(cacheData) == IF "meta" \in DOMAIN cacheData THEN Some(cacheData.meta) ELSE None
MetaStatus(meta) == IF IsSome(meta) THEN Val(meta).status ELSE None
MetaHeaders(meta) == IF IsSome(meta) THEN Val(meta).headers ELSE None
ContentTypeOf(hdrs) == IF IsSome(hdrs) THEN Val(hdrs).contentType ELSE None

BodyEncoding(hdrs) ==
    IF isBinaryContentType(String(ContentTypeOf(hdrs))) THEN "base64" ELSE "utf8"

\* getFetchCache with the tag index read outside the try block
getFetchCache_Uncaught(key, fail) ==
    LET got == ClientGet(store, key)
        lm == TagGetLastModified(tagIndex, key, got.lastModified, now)
    IN [result |-> IF fail \in {1, 2} THEN Null
                   ELSE IF lm = StaleSentinel THEN Null
                   ELSE IF got.value = UndefinedValue THEN Null
                   ELSE Entry(lm, got.value),
        calls |-> IF fail = 1 THEN <<"client.get">>
                  ELSE <<"client.get", "tag.getLastModified">>,
        lastModified |-> lastModified,
        threw |-> fail = 2]

getFetchCache(key, fail) ==
    LET got == ClientGet(store, key)
        lm == TagGetLastModified(tagIndex, key, got.lastModified, now)
    IN [result |-> IF fail \in {1, 2} THEN Null
                   ELSE IF lm = StaleSentinel THEN Null
                   ELSE IF got.value = UndefinedValue THEN Null
                   ELSE Entry(lm, got.value),
        calls |-> IF fail = 1 THEN <<"client.get">>
                  ELSE <<"client.get", "tag.getLastModified">>,
        lastModified |-> lastModified,
        threw |-> FALSE]

\* cacheValue with a record of an unknown type handed on as it is
cacheValue_UnknownHandedOn(cacheData) ==
    LET meta == MetaOf(cacheData)
    IN IF TypeOf(cacheData) = "route" THEN
           Some([kind |-> "ROUTE",
                 body |-> BufferFrom(cacheData.body, BodyEncoding(MetaHeaders(meta))),
                 status |-> MetaStatus(meta),
                 headers |-> MetaHeaders(meta)])
       ELSE IF TypeOf(cacheData) \in {"page", "app"} THEN
           Some([kind |-> "PAGE",
                 html |-> cacheData.html,
                 pageData |-> IF cacheData.type = "page" THEN cacheData.json
                              ELSE cacheData.rsc,
                 status |-> MetaStatus(meta),
                 headers |-> MetaHeaders(meta)])
       ELSE IF TypeOf(cacheData) = "redirect" THEN
           Some([kind |-> "REDIRECT", props |-> cacheData.props])
       ELSE IF cacheData = UndefinedValue THEN None
       ELSE Some(cacheData)

\* the value getIncrementalCache builds from a stored record, if any
cacheValue(cacheData) ==
    LET meta == MetaOf(cacheData)
    IN IF TypeOf(cacheData) = "route" THEN
           Some([kind |-> "ROUTE",
                 body |-> BufferFrom(cacheData.body, BodyEncoding(MetaHeaders(meta))),
                 status |-> MetaStatus(meta),
                 headers |-> MetaHeaders(meta)])
       ELSE IF TypeOf(cacheData) \in {"page", "app"} THEN
           Some([kind |-> "PAGE",
                 html |-> cacheData.html,
                 pageData |-> IF cacheData.type = "page" THEN cacheData.json
                              ELSE cacheData.rsc,
                 status |-> MetaStatus(meta),
                 headers |-> MetaHeaders(meta)])
       ELSE IF TypeOf(cacheData) = "redirect" THEN
           Some([kind |-> "REDIRECT", props |-> cacheData.props])
       ELSE None

\* globalThis.lastModified is the record {requestId: number} that
\* getIncrementalCache writes; fixISRHeaders may replace it by the number 0
LastModifiedRecord(entries) == [kind |-> "record", entries |-> entries, n |-> 0]
LastModifiedNumber(n) == [kind |-> "number", entries |-> [r \in Requests |-> None], n |-> n]

\* getIncrementalCache without the check for the stale sentinel
getIncrementalCache_NoSentinel(key, fail, requestId) ==
    LET got == ClientGet(store, key)
        lm == TagGetLastModified(tagIndex, key, got.lastModified, now)
        value == cacheValue(got.value)
        calls == IF fail = 1 THEN <<"client.get">>
                 ELSE <<"client.get", "tag.getLastModified">>
    IN IF fail \in {1, 2} \/ lastModified.kind # "record"
       THEN [result |-> Null, calls |-> calls, lastModified |-> lastModified,
             threw |-> FALSE]
       ELSE [result |-> IF IsSome(value) THEN Entry(lm, Val(value)) ELSE Null,
             calls |-> calls,
             lastModified |-> [lastModified EXCEPT !.entries[requestId] = Some(lm)],
             threw |-> FALSE]

getIncrementalCache(key, fail, requestId) ==
    LET got == ClientGet(store, key)
        lm == TagGetLastModified(tagIndex, key, got.lastModified, now)
        value == cacheValue(got.value)
        calls == IF fail = 1 THEN <<"client.get">>
                 ELSE <<"client.get", "tag.getLastModified">>
    IN IF fail \in {1, 2} \/ lm = StaleSentinel
       THEN [result |-> Null, calls |-> calls, lastModified |-> lastModified,
             threw |-> FALSE]
       \* an index assignment on a number throws (strict mode): caught
       ELSE IF lastModified.kind # "record"
       THEN [result |-> Null, calls |-> calls, lastModified |-> lastModified,
             threw |-> FALSE]
       ELSE [result |-> IF IsSome(value) THEN Entry(lm, Val(value)) ELSE Null,
             calls |-> calls,
             lastModified |-> [lastModified EXCEPT !.entries[requestId] = Some(lm)],
             threw |-> FALSE]

\* get without the check of globalThis.disableIncrementalCache
get_NoDisableCheck(key, options, fail, requestId) ==
    IF isFetchCache(options) THEN getFetchCache(key, fail)
    ELSE getIncrementalCache(key, fail, requestId)

get(key, options, fail, requestId) ==
    IF disableIncrementalCache
    THEN [result |-> Null, calls |-> <<>>, lastModified |-> lastModified,
          threw |-> FALSE]
    ELSE IF isFetchCache(options) THEN getFetchCache(key, fail)
    ELSE getIncrementalCache(key, fail, requestId)

\* the record set hands to client.set for a ROUTE, PAGE, FETCH or REDIRECT
wireRecord(data) ==
    IF data.kind = "ROUTE" THEN
        [type |-> "route",
         body |-> BufferToString(data.body, BodyEncoding(data.headers)),
         meta |-> [status |-> data.status, headers |-> data.headers]]
    ELSE IF data.kind = "PAGE" THEN
        IF data.pageData.t = "string"
        THEN [type |-> "app", html |-> data.html, rsc |-> data.pageData]
        ELSE [type |-> "page", html |-> data.html, json |-> data.pageData]
    ELSE IF data.kind = "FETCH" THEN data
    ELSE [type |-> "redirect", props |-> data.props]

\* derivedTags with the tags of the artifact preferred to those of the context
derivedTags_EmbeddedFirst(data, ctx) ==
    IF KindOf(data) = "FETCH" THEN
        IF IsSome(data.data.tags) THEN Val(data.data.tags)
        ELSE IF IsSome(ctx) /\ IsSome(Val(ctx).tags) THEN Val(Val(ctx).tags)
        ELSE <<>>
    ELSE IF KindOf(data) = "PAGE" THEN
        IF IsSome(data.headers) /\ IsSome(Val(data.headers).cacheTags)
        THEN Split(Val(Val(data.headers).cacheTags), ",")
        ELSE <<>>
    ELSE <<>>

derivedTags(data, ctx) ==
    IF KindOf(data) = "FETCH" THEN
        IF IsSome(ctx) /\ IsSome(Val(ctx).tags) THEN Val(Val(ctx).tags)
        ELSE IF IsSome(data.data.tags) THEN Val(data.data.tags)
        ELSE <<>>
    ELSE IF KindOf(data) = "PAGE" THEN
        IF IsSome(data.headers) /\ IsSome(Val(data.headers).cacheTags)
        THEN Split(Val(Val(data.headers).cacheTags), ",")
        ELSE <<>>
    ELSE <<>>

\* tagsToWrite without the filter on the stored tags
tagsToWrite_NoFilter(derived, storedTags) == derived

tagsToWrite(derived, storedTags) == Filter(derived, storedTags)

TagItems(key, tags) == [i \in 1..Len(tags) |-> [path |-> key, tag |-> tags[i]]]

\* set, with dt the ticks that pass between its artifact-store call and its
\* tag-index write.  The result holds the collaborators' new states, the
\* calls made, and whether set threw.
set(key, data, ctx, fail, dt) ==
    LET kind == KindOf(data)
        awaited == kind \in {"ROUTE", "FETCH", "REDIRECT"}
        deletes == kind = "undefined"
        storeCall == IF awaited \/ kind = "PAGE" THEN <<"client.set">>
                     ELSE IF deletes THEN <<"client.delete">> ELSE <<>>
        storeThrew == fail = 1 /\ (awaited \/ deletes)
        store1 == IF storeThrew THEN store
                  ELSE IF awaited THEN ClientSet(store, key, wireRecord(data), now)
                  ELSE IF deletes THEN ClientDelete(store, key)
                  ELSE store
        pending1 == IF kind = "PAGE"
                    THEN pending \cup {[key |-> key, value |-> wireRecord(data)]}
                    ELSE pending
        derived == derivedTags(data, ctx)
        storedTags == TagGetByPath(tagIndex, key)
        toWrite == tagsToWrite(derived, storedTags)
        writes == Len(toWrite) > 0
        same == [store |-> store, pending |-> pending, tagIndex |-> tagIndex,
                 now |-> now, calls |-> <<>>, wrote |-> <<>>, stored |-> {},
                 derived |-> <<>>, threw |-> FALSE]
    IN IF disableIncrementalCache THEN same
       ELSE IF storeThrew THEN [same EXCEPT !.calls = storeCall, !.threw = TRUE]
       ELSE IF fail = 2 THEN
           [same EXCEPT !.store = store1, !.pending = pending1,
                        !.calls = storeCall \o <<"tag.getByPath">>,
                        !.derived = derived, !.threw = TRUE]
       ELSE IF ~writes THEN
           [same EXCEPT !.store = store1, !.pending = pending1,
                        !.calls = storeCall \o <<"tag.getByPath">>,
                        !.derived = derived, !.stored = storedTags]
       ELSE IF fail = 3 THEN
           [same EXCEPT !.store = store1, !.pending = pending1, !.now = now + dt,
                        !.calls = storeCall \o <<"tag.getByPath", "tag.writeTags">>,
                        !.derived = derived, !.stored = storedTags, !.threw = TRUE]
       ELSE
           [same EXCEPT !.store = store1, !.pending = pending1, !.now = now + dt,
                        !.tagIndex = TagWriteTags(tagIndex, TagItems(key, toWrite), now + dt),
                        !.calls = storeCall \o <<"tag.getByPath", "tag.writeTags">>,
                        !.wrote = TagItems(key, toWrite),
                        !.derived = derived, !.stored = storedTags]

revalidateTag(tag, fail) ==
    LET paths == TagGetByTag(tagIndex, tag)
        items == [i \in 1..Cardinality(paths) |-> [path |-> SetToSeq(paths)[i], tag |-> tag]]
        same == [tagIndex |-> tagIndex, calls |-> <<>>, wrote |-> <<>>, threw |-> FALSE]
    IN IF disableDynamoDBCache \/ disableIncrementalCache THEN same
       ELSE IF fail = 1 THEN [same EXCEPT !.calls = <<"tag.getByTag">>, !.threw = TRUE]
       ELSE IF fail = 2 THEN
           [same EXCEPT !.calls = <<"tag.getByTag", "tag.writeTags">>, !.threw = TRUE]
       ELSE [same EXCEPT !.tagIndex = TagWriteTags(tagIndex, items, now),
                         !.calls = <<"tag.getByTag", "tag.writeTags">>,
                         !.wrote = items]

(***************************************************************************)
(* 32-bit integer arithmetic of JavaScript (Math.imul, ^, |, >>>, +), on   *)
(* words kept as two 16-bit halves: W(h, l) is h * 65536 + l.              *)
(***************************************************************************)
W(h, l) == [h |-> h, l |-> l]

RECURSIVE Pow2(_)
Pow2(n) == IF n = 0 THEN 1 ELSE 2 * Pow2(n - 1)

RECURSIVE BitXor(_, _)
BitXor(a, b) ==
    IF a = 0 THEN b
    ELSE IF b = 0 THEN a
    ELSE ((a + b) % 2) + 2 * BitXor(a \div 2, b \div 2)

RECURSIVE BitOr(_, _)
BitOr(a, b) ==
    IF a = 0 THEN b
    ELSE IF b = 0 THEN a
    ELSE (IF a % 2 = 1 \/ b % 2 = 1 THEN 1 ELSE 0) + 2 * BitOr(a \div 2, b \div 2)

\* The only element of a one-element set.  The operators below bind their
\* arguments through it, so that an argument is evaluated once however often
\* the body uses it.
The(S) == CHOOSE v \in S : TRUE

Xor32(x, y) ==
    The({W(BitXor(p[1].h, p[2].h), BitXor(p[1].l, p[2].l)) : p \in {<<x, y>>}})
Or32(x, y) ==
    The({W(BitOr(p[1].h, p[2].h), BitOr(p[1].l, p[2].l)) : p \in {<<x, y>>}})

Add32(x, y) ==
    The({W((p[1].h + p[2].h + ((p[1].l + p[2].l) \div 65536)) % 65536,
           (p[1].l + p[2].l) % 65536) : p \in {<<x, y>>}})

\* x >>> n, 0 < n < 32
Shr32(x, n) ==
    The({IF n >= 16 THEN W(0, v.h \div Pow2(n - 16))
         ELSE W(v.h \div Pow2(n), (v.l \div Pow2(n)) + (v.h % Pow2(n)) * Pow2(16 - n))
         : v \in {x}})

\* the low 16 bits of a * b, for 16-bit a and b
MulLow16(a, b) == ((a % 256) * b + (((a \div 256) * b) % 256) * 256) % 65536

\* a * b as a word, for 16-bit a and b
Mul16(a, b) ==
    LET p0 == (a % 256) * b
        p1 == (a \div 256) * b
        low == p0 + (p1 % 256) * 256
    IN W(((low \div 65536) + (p1 \div 256)) % 65536, low % 65536)

\* Math.imul(x, y): the low 32 bits of the product
Imul(x, y) ==
    The({W((Mul16(p[1].l, p[2].l).h + MulLow16(p[1].h, p[2].l)
              + MulLow16(p[1].l, p[2].h)) % 65536,
           Mul16(p[1].l, p[2].l).l) : p \in {<<x, y>>}})

(***************************************************************************)
(* The revalidation lane of a path (generateMessageGroupId, cyrb128).      *)
(***************************************************************************)
\* str.charCodeAt(i) for the paths of the model
CharCodes(path) ==
    CASE path = "/a" -> <<47, 97>>
      [] path = "/b" -> <<47, 98>>
      [] path = "/" -> <<47>>
      [] path = "/ab" -> <<47, 97, 98>>
      [] path = "/ba" -> <<47, 98, 97>>
      [] path = "/a/b" -> <<47, 97, 47, 98>>
      [] OTHER -> <<>>

Cyrb128Step(h, k) ==
    LET kw == W(0, k)
        h1 == Xor32(h[2], Imul(Xor32(h[1], kw), W(9115, 38427)))     \* 597399067
        h2 == Xor32(h[3], Imul(Xor32(h[2], kw), W(43790, 38793)))    \* 2869860233
        h3 == Xor32(h[4], Imul(Xor32(h[3], kw), W(14515, 19173)))    \* 951274213
    IN The({<<n1, h2, h3,
              Xor32(n1, Imul(Xor32(h[4], kw), W(41443, 35731)))>>   \* 2716044179
            : n1 \in {h1}})

RECURSIVE Cyrb128Loop(_, _)
Cyrb128Loop(h, codes) ==
    IF codes = <<>> THEN h
    ELSE The({Cyrb128Loop(Cyrb128Step(v, Head(codes)), Tail(codes)) : v \in {h}})

cyrb128(codes) ==
    LET h == Cyrb128Loop(<<W(27145, 58983),     \* 1779033703
                           W(47975, 44677),     \* 3144134277
                           W(15470, 62322),     \* 1013904242
                           W(42319, 62778)>>,   \* 2773480762
                         codes)
    IN The({The({Xor32(n[1], Xor32(n[2],
                    Xor32(Imul(Xor32(n[1], Shr32(v[3], 17)), W(14515, 19173)),
                          Imul(Xor32(n[2], Shr32(v[4], 19)), W(41443, 35731)))))
                 : n \in {<<Imul(Xor32(v[3], Shr32(v[1], 18)), W(9115, 38427)),
                            Imul(Xor32(v[4], Shr32(v[2], 22)), W(43790, 38793))>>}})
            : v \in {h}})

DefaultMaxConcurrency == 10

\* parseInt(str) for a string of decimal digits
DigitVal(c) ==
    CASE c = "0" -> 0 [] c = "1" -> 1 [] c = "2" -> 2 [] c = "3" -> 3 [] c = "4" -> 4
      [] c = "5" -> 5 [] c = "6" -> 6 [] c = "7" -> 7 [] c = "8" -> 8 [] c = "9" -> 9

RECURSIVE ParseIntFrom(_, _)
ParseIntFrom(acc, str) ==
    IF str = <<>> THEN acc ELSE ParseIntFrom(acc * 10 + DigitVal(Head(str)), Tail(str))

parseInt(str) == ParseIntFrom(0, str)

\* parseInt(process.env.MAX_REVALIDATE_CONCURRENCY ?? "10"), the variable
\* being unset or a string of decimal digits
MaxConcurrency(env) ==
    IF IsSome(env) THEN parseInt(Val(env)) ELSE DefaultMaxConcurrency

\* Math.round in place of Math.floor
ScaleToInt_Round(u, n) ==
    The({((v.h * n) + ((v.l * n) \div 65536) + 32768) \div 65536 : v \in {u}})

\* Math.floor(u / 4294967296 * n) for a 32-bit u: exact in double precision
ScaleToInt(u, n) ==
    The({((v.h * n) + ((v.l * n) \div 65536)) \div 65536 : v \in {u}})

generateMessageGroupId(path, env) ==
    LET Mix1(a) == Imul(Xor32(a, Shr32(a, 15)), Or32(a, W(0, 1)))
        Mix2(t) == Xor32(t, Add32(t, Imul(Xor32(t, Shr32(t, 7)), Or32(t, W(0, 61)))))
        Mix3(t) == Xor32(t, Shr32(t, 14))
    IN The({The({The({<<"revalidate-", ScaleToInt(Mix3(t2), MaxConcurrency(env))>>
                      : t2 \in {Mix2(t1)}})
                 : t1 \in {Mix1(a)}})
            : a \in {Add32(cyrb128(CharCodes(path)), W(27947, 31221))}})   \* 0x6d2b79f5

(***************************************************************************)
(* Response headers and the header policy (core/routing/util.ts).          *)
(*                                                                         *)
(* A response's headers are [cache, cacheControl, openNext]: the           *)
(* x-nextjs-cache header (optional), the cache-control header and the      *)
(* X-OpenNext header (optional).  A cache-control value is undefined, a    *)
(* string or an array of strings; a cache-control string is the sequence   *)
(* of its directives, each [name, value] with value optional.              *)
(***************************************************************************)
D(name) == [name |-> name, value |-> None]
DV(name, value) == [name |-> name, value |-> Some(value)]

CCUndefined == [t |-> "undefined"]
CCString(directives) == [t |-> "string", d |-> directives]
CCArray(items) == [t |-> "array", items |-> items]

SWRSeconds == 2592000        \* 30 days
InfiniteSMaxAge == 31536000  \* the s-maxage of SSG pages
StaleSMaxAge == 2

CCRevalidated ==
    CCString(<<D("private"), D("no-cache"), D("no-store"), DV("max-age", 0),
               D("must-revalidate")>>)
CCStale ==
    CCString(<<DV("s-maxage", StaleSMaxAge), DV("stale-while-revalidate", SWRSeconds)>>)
CCHtmlPage ==
    CCString(<<D("public"), DV("max-age", 0), DV("s-maxage", InfiniteSMaxAge),
               D("must-revalidate")>>)

ResponseHeaders(cache, cacheControl) ==
    [cache |-> cache, cacheControl |-> cacheControl, openNext |-> None]

\* the truthiness of a cache-control value
Truthy(cc) == cc.t = "array" \/ (cc.t = "string" /\ cc.d # <<>>)

\* the paths of the configuration's HtmlPages
HtmlPages == {"/b"}

fixCacheHeaderForHtmlPages(path, hdrs) ==
    IF path \in HtmlPages /\ Truthy(hdrs.cacheControl)
    THEN [hdrs EXCEPT !.cacheControl = CCHtmlPage]
    ELSE hdrs

RECURSIVE Join(_)
Join(items) == IF items = <<>> THEN <<>> ELSE Head(items) \o Join(Tail(items))

\* str.replace(/\bstale-while-revalidate(?!=)/, "stale-while-revalidate=2592000"):
\* the first stale-while-revalidate that has no value gets one
ReplaceBareSWR(directives) ==
    LET bare == {i \in 1..Len(directives) :
                    directives[i] = D("stale-while-revalidate")}
    IN IF bare = {} THEN directives
       ELSE LET first == CHOOSE i \in bare : \A j \in bare : i <= j
            IN [directives EXCEPT ![first] = DV("stale-while-revalidate", SWRSeconds)]

fixSWRCacheHeader(hdrs) ==
    LET cc == hdrs.cacheControl
    IN IF ~Truthy(cc) THEN hdrs
       ELSE [hdrs EXCEPT !.cacheControl =
                CCString(ReplaceBareSWR(IF cc.t = "array" THEN Join(cc.items) ELSE cc.d))]

\* X-OpenNext; X-OpenNext-Version is added by debug builds only
addOpenNextHeader(hdrs) == [hdrs EXCEPT !.openNext = Some("1")]

\* globalThis.lastModified > 0: an object compares as NaN
GreaterThanZero(lm) == lm.kind = "number" /\ lm.n > 0

\* Math.round(ms / 1000)
RoundSeconds(ms) == (ms + (MsPerSecond \div 2)) \div MsPerSecond

\* cacheControl.match(/s-maxage=(\d+)/): the first s-maxage with a value
SMaxAge(directives) ==
    LET found == {i \in 1..Len(directives) :
                     directives[i].name = "s-maxage" /\ IsSome(directives[i].value)}
    IN IF found = {} THEN None
       ELSE directives[CHOOSE i \in found : \A j \in found : i <= j].value

Max(a, b) == IF a >= b THEN a ELSE b

\* fixISRHeaders with the STALE rewrite placed after the check that
\* cache-control is a string
fixISRHeaders_StaleNeedsString(hdrs, lm, t) ==
    LET same == [headers |-> hdrs, lastModified |-> lm]
    IN IF hdrs.cache = Some("REVALIDATED")
       THEN [same EXCEPT !.headers = [hdrs EXCEPT !.cacheControl = CCRevalidated]]
       ELSE IF hdrs.cache = Some("STALE") /\ hdrs.cacheControl.t = "string"
       THEN [same EXCEPT !.headers = [hdrs EXCEPT !.cacheControl = CCStale]]
       ELSE same

\* fixISRHeaders treating every cache state but REVALIDATED and HIT as STALE
fixISRHeaders_StaleUnlessHit(hdrs, lm, t) ==
    LET same == [headers |-> hdrs, lastModified |-> lm]
    IN IF hdrs.cache = Some("REVALIDATED")
       THEN [same EXCEPT !.headers = [hdrs EXCEPT !.cacheControl = CCRevalidated]]
       ELSE IF hdrs.cache = Some("HIT") THEN same
       ELSE [same EXCEPT !.headers = [hdrs EXCEPT !.cacheControl = CCStale]]

\* fixISRHeaders without the reset of globalThis.lastModified
fixISRHeaders_NoReset(hdrs, lm, t) ==
    LET same == [headers |-> hdrs, lastModified |-> lm]
        cc == hdrs.cacheControl
        age == RoundSeconds(DateNow(t) - lm.n)
        sMaxAge == SMaxAge(cc.d)
    IN IF hdrs.cache = Some("REVALIDATED")
       THEN [same EXCEPT !.headers = [hdrs EXCEPT !.cacheControl = CCRevalidated]]
       ELSE IF hdrs.cache = Some("HIT") /\ GreaterThanZero(lm)
       THEN IF cc.t = "string" /\ IsSome(sMaxAge) /\ Val(sMaxAge) # 0
                 /\ Val(sMaxAge) # InfiniteSMaxAge
            THEN [same EXCEPT !.headers = [hdrs EXCEPT !.cacheControl =
                     CCString(<<DV("s-maxage", Max(Val(sMaxAge) - age, 1)),
                                DV("stale-while-revalidate", SWRSeconds)>>)]]
            ELSE same
       ELSE IF hdrs.cache # Some("STALE") THEN same
       ELSE [same EXCEPT !.headers = [hdrs EXCEPT !.cacheControl = CCStale]]

\* fixISRHeaders at time t: the headers and globalThis.lastModified it leaves
fixISRHeaders(hdrs, lm, t) ==
    LET same == [headers |-> hdrs, lastModified |-> lm]
        cc == hdrs.cacheControl
        age == RoundSeconds(DateNow(t) - lm.n)
        sMaxAge == SMaxAge(cc.d)
        rewritten ==
            IF IsSome(sMaxAge) /\ Val(sMaxAge) # 0 /\ Val(sMaxAge) # InfiniteSMaxAge
            THEN [hdrs EXCEPT !.cacheControl =
                     CCString(<<DV("s-maxage", Max(Val(sMaxAge) - age, 1)),
                                DV("stale-while-revalidate", SWRSeconds)>>)]
            ELSE hdrs
    IN IF hdrs.cache = Some("REVALIDATED")
       THEN [same EXCEPT !.headers = [hdrs EXCEPT !.cacheControl = CCRevalidated]]
       ELSE IF hdrs.cache = Some("HIT") /\ GreaterThanZero(lm)
       THEN IF cc.t # "string" THEN same
            ELSE [headers |-> rewritten, lastModified |-> LastModifiedNumber(0)]
       ELSE IF hdrs.cache # Some("STALE") THEN same
       ELSE [same EXCEPT !.headers = [hdrs EXCEPT !.cacheControl = CCStale]]

\* crypto.createHash("md5").update(str).digest("hex"): a digest stands for
\* its preimage, so distinct strings have distinct digests
hash(str) == <<"md5", str>>

BuildId == "BUILD"

\* the request's NextInternalRequestMeta, if a request was passed:
\* [didRewrite, rewroteUrl, isDataPath], isDataPath being
\* rawPath.startsWith("/_next/data/")
revalidateUrl(path, req) ==
    IF IsSome(req) /\ Val(req).didRewrite
    THEN IF Val(req).isDataPath
         THEN <<"/_next/data/", BuildId, Val(req).rewroteUrl, ".json">>
         ELSE <<Val(req).rewroteUrl>>
    ELSE <<path>>

\* process.env.MAX_REVALIDATE_CONCURRENCY
maxRevalidateConcurrency == None

\* generateMessageGroupId(rawPath) of every path, computed once
MessageGroupIds ==
    [path \in Keys |-> generateMessageGroupId(path, maxRevalidateConcurrency)]

\* revalidateIfRequired with queue.send outside the try block
revalidateIfRequired_Uncaught(host, path, hdrs, req, lm, t, sendThrows) ==
    LET fixed == fixISRHeaders(hdrs, lm, t)
        message ==
            [MessageBody |-> [host |-> host, url |-> revalidateUrl(path, req)],
             MessageDeduplicationId |-> hash(<<path, "-", None>>),
             MessageGroupId |-> MessageGroupIds[path],
             delivered |-> ~sendThrows]
        sends == IF fixed.headers.cache = Some("STALE") THEN <<message>> ELSE <<>>
    IN [headers |-> fixed.headers,
        lastModified |-> fixed.lastModified,
        sends |-> sends,
        threw |-> sends # <<>> /\ sendThrows]

\* revalidateIfRequired with the deduplication id built from the current time
revalidateIfRequired_DedupByTime(host, path, hdrs, req, lm, t, sendThrows) ==
    LET fixed == fixISRHeaders(hdrs, lm, t)
        message ==
            [MessageBody |-> [host |-> host, url |-> revalidateUrl(path, req)],
             MessageDeduplicationId |-> hash(<<path, "-", Some(DateNow(t))>>),
             MessageGroupId |-> MessageGroupIds[path],
             delivered |-> ~sendThrows]
    IN [headers |-> fixed.headers,
        lastModified |-> fixed.lastModified,
        sends |-> IF fixed.headers.cache = Some("STALE") THEN <<message>> ELSE <<>>,
        threw |-> FALSE]

\* revalidateIfRequired dispatching for every response served from the cache
revalidateIfRequired_AnyCacheState(host, path, hdrs, req, lm, t, sendThrows) ==
    LET fixed == fixISRHeaders(hdrs, lm, t)
        message ==
            [MessageBody |-> [host |-> host, url |-> revalidateUrl(path, req)],
             MessageDeduplicationId |-> hash(<<path, "-", None>>),
             MessageGroupId |-> MessageGroupIds[path],
             delivered |-> ~sendThrows]
    IN [headers |-> fixed.headers,
        lastModified |-> fixed.lastModified,
        sends |-> IF fixed.headers.cache \in {Some("STALE"), Some("HIT")}
                  THEN <<message>> ELSE <<>>,
        threw |-> FALSE]

\* revalidateIfRequired at time t; sendThrows: globalThis.queue.send throws.
\* The result holds the headers and globalThis.lastModified it leaves and
\* the messages it passed to queue.send.
revalidateIfRequired(host, path, hdrs, req, lm, t, sendThrows) ==
    LET fixed == fixISRHeaders(hdrs, lm, t)
        used == IF GreaterThanZero(fixed.lastModified)
                THEN Some(fixed.lastModified.n) ELSE None
        message ==
            [MessageBody |-> [host |-> host, url |-> revalidateUrl(path, req)],
             MessageDeduplicationId |-> hash(<<path, "-", used>>),
             MessageGroupId |-> MessageGroupIds[path],
             delivered |-> ~sendThrows]
    IN [headers |-> fixed.headers,
        lastModified |-> fixed.lastModified,
        sends |-> IF fixed.headers.cache = Some("STALE") THEN <<message>> ELSE <<>>,
        threw |-> FALSE]

(***************************************************************************)
(* The inputs the cache is driven with.                                    *)
(***************************************************************************)
TagT == <<"t">>
TagU == <<"u">>
Tags == {TagT, TagU}

TextHtml == Hdrs(Some("text/html"), None)
AppData == [t |-> "string", v |-> "rsc"]
PagesData == [t |-> "object", v |-> "json"]

RouteText == RouteValue(<<104, 105>>, 200, TextHtml)
RouteBinary == RouteValue(<<255, 0, 97>>, 200, Hdrs(Some("image/png"), None))
PageApp == PageValue("<p>", AppData, None, Some(Hdrs(None, Some(<<"t">>))))
PagePages == PageValue("<p>", PagesData, Some(200), Some(Hdrs(None, Some(<<"t", ",", "u">>))))
PageRepeat == PageValue("<p>", AppData, None, Some(Hdrs(None, Some(<<"u", ",", "u">>))))
PagePlain == PageValue("<p>", PagesData, None, None)
Redirect == RedirectValue("props")
FetchTagged == FetchValue("body", Some(<<TagU>>))
FetchPlain == FetchValue("body", None)

SetInput(key, data, ctx) == [key |-> key, data |-> data, ctx |-> ctx]

\* what set is called with under Spec: every kind of value on one key
SetInputs ==
    {SetInput("/a", d, None) :
        d \in {RouteBinary, PageApp, PagePages, PageRepeat, Redirect, FetchTagged,
               ImageValue, NullData, UndefinedData}}
    \cup {SetInput("/a", FetchTagged, Some(Ctx(Some(<<TagT>>)))),
          SetInput("/a", FetchPlain, Some(Ctx(None)))}
GetKeys == {"/a"}
Options == {NoOptions, ObjOption(Some(TRUE), Some("app")), ObjOption(None, Some("fetch"))}
CacheCallers == {"r1"}

\* what set is called with under SpecFail, where collaborator calls may throw
FailInputs ==
    {SetInput("/a", d, None) : d \in {RouteBinary, PageApp, FetchTagged, NullData}}
FailOptions == {NoOptions, ObjOption(None, Some("fetch"))}

(***************************************************************************)
(* Actions of the cache.                                                   *)
(***************************************************************************)
NoOp == [op |-> "none", req |-> "", key |-> "", tag |-> <<>>, fetch |-> FALSE,
         data |-> UndefinedData, ctx |-> None,
         fail |-> 0, calls |-> <<>>, wrote |-> <<>>,
         stored |-> {}, derived |-> <<>>, result |-> Null, threw |-> FALSE]

Get(r, key, options, fail) ==
    LET out == get(key, options, fail, r)
    IN /\ lastModified' = out.lastModified
       /\ lastOp' = [NoOp EXCEPT !.op = "get", !.req = r, !.key = key,
                                 !.fetch = isFetchCache(options), !.fail = fail,
                                 !.calls = out.calls, !.result = out.result,
                                 !.threw = out.threw]
       /\ UNCHANGED <<store, pending, tagIndex, now, written, everDerived>>
       /\ UNCHANGED <<flagVars, laneVars, policyVars>>
       /\ UNCHANGED reqVars

Set(r, key, data, ctx, fail, dt) ==
    LET out == set(key, data, ctx, fail, dt)
        issued == ~disableIncrementalCache /\ out.calls # <<>> /\ ~(out.threw /\ fail = 1)
    IN /\ now + dt <= MaxTime
       /\ dt > 0 => "tag.writeTags" \in Range(out.calls)
       /\ Cardinality(out.pending) <= MaxPending
       /\ store' = out.store
       /\ pending' = out.pending
       /\ tagIndex' = out.tagIndex
       /\ now' = out.now
       /\ written' = IF ~issued \/ KindOf(data) = "IMAGE" THEN written
                     ELSE IF KindOf(data) = "undefined"
                     THEN [written EXCEPT ![key] = None]
                     ELSE [written EXCEPT ![key] = Some(data)]
       /\ everDerived' = IF disableIncrementalCache \/ out.threw THEN everDerived
                         ELSE [everDerived EXCEPT ![key] = @ \cup Range(out.derived)]
       /\ lastOp' = [NoOp EXCEPT !.op = "set", !.req = r, !.key = key, !.fail = fail,
                                 !.data = data, !.ctx = ctx, !.calls = out.calls,
                                 !.wrote = out.wrote, !.stored = out.stored,
                                 !.derived = out.derived, !.threw = out.threw]
       /\ UNCHANGED lastModified
       /\ UNCHANGED <<flagVars, laneVars, policyVars>>
       /\ UNCHANGED reqVars

RevalidateTag(tag, fail) ==
    LET out == revalidateTag(tag, fail)
    IN /\ tagIndex' = out.tagIndex
       /\ lastOp' = [NoOp EXCEPT !.op = "revalidateTag", !.tag = tag, !.fail = fail,
                                 !.calls = out.calls, !.wrote = out.wrote,
                                 !.threw = out.threw]
       /\ UNCHANGED <<store, pending, now, lastModified, written, everDerived>>
       /\ UNCHANGED <<flagVars, laneVars, policyVars>>
       /\ UNCHANGED reqVars

\* an artifact-store write that set issued without awaiting it completes,
\* or is rejected with no handler attached (threw: an unhandled rejection)
SettleWrite(p, ok) ==
    /\ p \in pending
    /\ pending' = pending \ {p}
    /\ store' = IF ok THEN ClientSet(store, p.key, p.value, now) ELSE store
    /\ lastOp' = [NoOp EXCEPT !.op = "settle", !.key = p.key, !.threw = ~ok]
    /\ UNCHANGED <<tagIndex, now, lastModified, written, everDerived>>
    /\ UNCHANGED <<flagVars, laneVars, policyVars>>
    /\ UNCHANGED reqVars

Tick ==
    /\ now < MaxTime
    /\ now' = now + 1
    /\ lastOp' = NoOp
    /\ UNCHANGED <<store, pending, tagIndex, lastModified, written, everDerived>>
    /\ UNCHANGED <<flagVars, laneVars, policyVars>>
    /\ UNCHANGED reqVars

InitCache ==
    /\ store = [k \in Keys |-> Missing]
    /\ pending = {}
    /\ tagIndex = {}
    /\ now = 1
    /\ lastModified = LastModifiedRecord([r \in Requests |-> None])
    /\ lastOp = NoOp
    /\ written = [k \in Keys |-> None]
    /\ everDerived = [k \in Keys |-> {}]

InitRequests ==
    /\ pc = [r \in Requests |-> "idle"]
    /\ rawPath = [r \in Requests |-> "/a"]
    /\ internalMeta = [r \in Requests |-> None]
    /\ headers = [r \in Requests |-> ResponseHeaders(None, CCUndefined)]
    /\ queue = <<>>
    /\ laneLog = <<>>
    /\ policyLog = <<>>

\* the cache enabled or disabled, the tag index in use
Init ==
    /\ InitCache
    /\ InitRequests
    /\ disableIncrementalCache \in BOOLEAN
    /\ disableDynamoDBCache = FALSE

CacheNext(setInputs, options, delays, getFails, setFails, revalidateFails) ==
    \/ \E r \in CacheCallers, key \in GetKeys, o \in options, fail \in getFails :
           Get(r, key, o, fail)
    \/ \E r \in CacheCallers, in \in setInputs, fail \in setFails, dt \in delays :
           Set(r, in.key, in.data, in.ctx, fail, dt)
    \/ \E tag \in Tags, fail \in revalidateFails : RevalidateTag(tag, fail)
    \/ \E p \in pending, ok \in BOOLEAN : SettleWrite(p, ok)
    \/ Tick

\* the cache with collaborators that answer every call
Next == CacheNext(SetInputs, Options, 0..1, {0}, {0}, {0})

\* the cache, enabled, with collaborators whose calls may throw
NextFail == CacheNext(FailInputs, FailOptions, {0}, 0..2, 0..3, 0..2)

InitFail ==
    /\ InitCache
    /\ InitRequests
    /\ disableIncrementalCache = FALSE
    /\ disableDynamoDBCache = FALSE

Spec == Init /\ [][Next]_vars

SpecFail == InitFail /\ [][NextFail]_vars

(***************************************************************************)
(* A request's life: it arrives with a path, the renderer reads the cache  *)
(* under the request's id and writes the response headers, the response    *)
(* fixes its headers when they are flushed (createServerResponse, first    *)
(* callback) and dispatches the revalidation when it ends (second          *)
(* callback).  Requests interleave at every step.                          *)
(***************************************************************************)
Host == "example.com"

CacheStates == {None, Some("HIT"), Some("STALE"), Some("REVALIDATED"), Some("MISS")}
CacheControls ==
    {CCUndefined,
     CCString(<<DV("s-maxage", 500), D("stale-while-revalidate")>>),
     CCString(<<DV("s-maxage", InfiniteSMaxAge), D("stale-while-revalidate")>>),
     CCArray(<<<<DV("s-maxage", 500)>>, <<D("stale-while-revalidate")>>>>)}

\* the paths a request may ask for
RequestPaths(r) == IF r = "r1" THEN {"/a"} ELSE {"/a", "/b"}

\* the cache-control values the renderer may write for a request
RequestControls(r) ==
    IF r = "r1" THEN {CCString(<<DV("s-maxage", 500), D("stale-while-revalidate")>>)}
    ELSE CacheControls

\* the internal meta a request may carry: none, or a rewrite to "/b"
RequestMetas(r) ==
    IF r = "r1" THEN {None}
    ELSE {None, Some([didRewrite |-> TRUE, rewroteUrl |-> "/b", isDataPath |-> FALSE])}

\* what set is called with under SpecServe
ServeInputs == {SetInput("/a", Redirect, None)}

Arrive(r, path, meta) ==
    /\ pc[r] = "idle"
    /\ pc' = [pc EXCEPT ![r] = "handling"]
    /\ rawPath' = [rawPath EXCEPT ![r] = path]
    /\ internalMeta' = [internalMeta EXCEPT ![r] = meta]
    /\ lastOp' = NoOp
    /\ UNCHANGED <<store, pending, tagIndex, now, lastModified, written, everDerived>>
    /\ UNCHANGED <<flagVars, laneVars, policyVars>>
    /\ UNCHANGED <<headers, queue>>

\* the renderer looks the request's path up in the cache
Lookup(r) ==
    /\ pc[r] = "handling"
    /\ Get(r, rawPath[r], NoOptions, 0)

\* the renderer writes the response headers
Respond(r, cache, cacheControl) ==
    /\ pc[r] = "handling"
    /\ pc' = [pc EXCEPT ![r] = "responding"]
    /\ headers' = [headers EXCEPT ![r] = ResponseHeaders(cache, cacheControl)]
    /\ lastOp' = NoOp
    /\ UNCHANGED <<store, pending, tagIndex, now, lastModified, written, everDerived>>
    /\ UNCHANGED <<flagVars, laneVars, policyVars>>
    /\ UNCHANGED <<rawPath, internalMeta, queue>>

\* createServerResponse, first callback
FixHeaders(r) ==
    LET fixed == fixISRHeaders(
                    addOpenNextHeader(
                        fixSWRCacheHeader(
                            fixCacheHeaderForHtmlPages(rawPath[r], headers[r]))),
                    lastModified, now)
    IN /\ pc[r] = "responding"
       /\ pc' = [pc EXCEPT ![r] = "flushed"]
       /\ headers' = [headers EXCEPT ![r] = fixed.headers]
       /\ lastModified' = fixed.lastModified
       /\ lastOp' = NoOp
       /\ UNCHANGED <<store, pending, tagIndex, now, written, everDerived>>
       /\ UNCHANGED <<flagVars, laneVars, policyVars>>
       /\ UNCHANGED <<rawPath, internalMeta, queue>>

\* createServerResponse, second callback: revalidateIfRequired without req
EndResponse(r, sendThrows) ==
    LET out == revalidateIfRequired(Host, rawPath[r], headers[r], None,
                                    lastModified, now, sendThrows)
    IN /\ pc[r] = "flushed"
       /\ pc' = [pc EXCEPT ![r] = "done"]
       /\ headers' = [headers EXCEPT ![r] = out.headers]
       /\ lastModified' = out.lastModified
       /\ queue' = queue \o [i \in 1..Len(out.sends) |->
                                [req |-> r, message |-> out.sends[i]]]
       /\ lastOp' = [NoOp EXCEPT !.op = "revalidateIfRequired", !.req = r,
                                 !.threw = out.threw]
       /\ UNCHANGED <<store, pending, tagIndex, now, written, everDerived>>
       /\ UNCHANGED <<flagVars, laneVars, policyVars>>
       /\ UNCHANGED <<rawPath, internalMeta>>

NextServe ==
    \/ \E r \in Requests : \E path \in RequestPaths(r) : \E meta \in RequestMetas(r) :
           Arrive(r, path, meta)
    \/ \E r \in Requests : Lookup(r)
    \/ \E r \in Requests, cache \in CacheStates : \E cc \in RequestControls(r) :
           Respond(r, cache, cc)
    \/ \E r \in Requests : FixHeaders(r)
    \/ \E r \in Requests, sendThrows \in BOOLEAN : EndResponse(r, sendThrows)
    \/ \E r \in CacheCallers, in \in ServeInputs :
           Set(r, in.key, in.data, in.ctx, 0, 0)
    \/ Tick

InitServe ==
    /\ InitCache
    /\ InitRequests
    /\ disableIncrementalCache = FALSE
    /\ disableDynamoDBCache = FALSE

SpecServe == InitServe /\ [][NextServe]_vars

(***************************************************************************)
(* generateMessageGroupId on its own: it is called with a path and with    *)
(* MAX_REVALIDATE_CONCURRENCY unset or set, and the calls are recorded.     *)
(***************************************************************************)
LanePaths == {"/", "/a", "/b", "/ab", "/ba", "/a/b"}
LaneEnvs == {None, Some(<<"1">>), Some(<<"2">>), Some(<<"3">>), Some(<<"1", "0">>)}

Lane(path, env) ==
    /\ Len(laneLog) < MaxCalls
    /\ laneLog' = Append(laneLog, [path |-> path, env |-> env,
                                   id |-> generateMessageGroupId(path, env)])
    /\ UNCHANGED <<cacheVars, flagVars, reqVars, policyVars>>

NextLane == \E path \in LanePaths, env \in LaneEnvs : Lane(path, env)

SpecLane == InitServe /\ [][NextLane]_vars

(***************************************************************************)
(* fixISRHeaders on its own: it is applied, once or several times in a     *)
(* row, to the headers of one response, for every cache state, every       *)
(* cache-control value and every value of globalThis.lastModified, and the *)
(* applications are recorded.                                              *)
(***************************************************************************)
\* x-nextjs-cache: the states of CacheStates and one in another letter case
PolicyCacheStates == CacheStates \cup {Some("stale")}

\* cache-control: the values of CacheControls, a string without s-maxage,
\* and strings with s-maxage=1 and s-maxage=0
PolicyControls ==
    CacheControls
    \cup {CCString(<<D("no-store")>>),
          CCString(<<DV("s-maxage", 1), DV("stale-while-revalidate", 60)>>),
          CCString(<<DV("s-maxage", 0)>>)}

\* globalThis.lastModified: a number, as util.ts declares it, or the record
\* of request ids that the cache writes
PolicyLastModified ==
    {LastModifiedNumber(0)}
    \cup {LastModifiedNumber(DateNow(t)) : t \in 1..MaxTime}
    \cup {LastModifiedRecord([r \in Requests |-> None]),
          LastModifiedRecord([r \in Requests |-> Some(DateNow(1))])}

ApplyPolicy(r) ==
    LET fixed == fixISRHeaders(headers[r], lastModified, now)
    IN /\ Len(policyLog) < MaxCalls
       /\ headers' = [headers EXCEPT ![r] = fixed.headers]
       /\ lastModified' = fixed.lastModified
       /\ policyLog' = Append(policyLog,
                              [headers |-> headers[r], lastModified |-> lastModified,
                               at |-> now, after |-> fixed])
       /\ UNCHANGED <<store, pending, tagIndex, now, lastOp, written, everDerived>>
       /\ UNCHANGED <<flagVars, laneVars>>
       /\ UNCHANGED <<pc, rawPath, internalMeta, queue>>

NextPolicy ==
    \/ \E r \in CacheCallers : ApplyPolicy(r)
    \/ Tick

InitPolicy ==
    /\ store = [k \in Keys |-> Missing]
    /\ pending = {}
    /\ tagIndex = {}
    /\ now = 1
    /\ lastModified \in PolicyLastModified
    /\ lastOp = NoOp
    /\ written = [k \in Keys |-> None]
    /\ everDerived = [k \in Keys |-> {}]
    /\ pc = [r \in Requests |-> "responding"]
    /\ rawPath = [r \in Requests |-> "/a"]
    /\ internalMeta = [r \in Requests |-> None]
    /\ \E cache \in PolicyCacheStates, cc \in PolicyControls :
           headers = [r \in Requests |-> ResponseHeaders(cache, cc)]
    /\ queue = <<>>
    /\ laneLog = <<>>
    /\ policyLog = <<>>
    /\ disableIncrementalCache = FALSE
    /\ disableDynamoDBCache = FALSE

SpecPolicy == InitPolicy /\ [][NextPolicy]_vars

(***************************************************************************)
(* Properties.                                                             *)
(***************************************************************************)
\* a tag item of the key is stamped later than the key's last write
InvalidatedAfterWrite(key) ==
    /\ store[key].present
    /\ \E b \in tagIndex : b.path = key /\ b.revalidatedAt > store[key].lastModified

BoundTags(key) == TagGetByPath(tagIndex, key)

TagsOf(items) == {items[i].tag : i \in 1..Len(items)}

\* C1: a get of a key that has a tag invalidated after the key's last write
\* returns absent, fetch variant or not, although the stored artifact is intact.
C1_StaleIsAbsent ==
    (lastOp.op = "get" /\ InvalidatedAfterWrite(lastOp.key)) => lastOp.result = Null

C1_Witness ==
    /\ lastOp.op = "get"
    /\ ~lastOp.fetch
    /\ ~disableIncrementalCache
    /\ InvalidatedAfterWrite(lastOp.key)
    /\ IsSome(cacheValue(store[lastOp.key].value))
    /\ lastOp.result = Null

\* C2: the tags bound to a key are the union of the tags derived by the sets
\* of the key, and no set writes a binding that is already bound or writes
\* one binding twice.
C2_TagUnionNoDuplicate ==
    /\ \A key \in Keys : BoundTags(key) = everDerived[key]
    /\ lastOp.op = "set" =>
          /\ TagsOf(lastOp.wrote) \cap lastOp.stored = {}
          /\ \A i, j \in 1..Len(lastOp.wrote) :
                 lastOp.wrote[i] = lastOp.wrote[j] => i = j

\* the messages a request passed to the queue
SendsOf(r) == {i \in 1..Len(queue) : queue[i].req = r}

\* the gets of both requests recorded the same last-modified time
SameEntry(r1, r2) ==
    /\ lastModified.kind = "record"
    /\ IsSome(lastModified.entries[r1])
    /\ lastModified.entries[r1] = lastModified.entries[r2]

\* C3: two requests for one path that were served the same stale entry pass
\* messages with the same deduplication id and the same group id to the queue.
C3_SameDedupAndLane ==
    \A i, j \in 1..Len(queue) :
        (/\ rawPath[queue[i].req] = rawPath[queue[j].req]
         /\ SameEntry(queue[i].req, queue[j].req))
        => /\ queue[i].message.MessageDeduplicationId
                = queue[j].message.MessageDeduplicationId
           /\ queue[i].message.MessageGroupId = queue[j].message.MessageGroupId

C3_Witness ==
    /\ Len(queue) = 2
    /\ queue[1].req # queue[2].req
    /\ rawPath[queue[1].req] = rawPath[queue[2].req]
    /\ SameEntry(queue[1].req, queue[2].req)
    /\ headers[queue[1].req].cache = Some("STALE")
    /\ headers[queue[2].req].cache = Some("STALE")

\* C4: the last-modified value the dispatcher uses for a request is the one
\* that request's own cache get recorded.
C4_RequestScopedLastModified ==
    \A i \in 1..Len(queue) :
        LET r == queue[i].req
        IN (lastModified.kind = "record" /\ IsSome(lastModified.entries[r]))
           => queue[i].message.MessageDeduplicationId
                = hash(<<rawPath[r], "-", lastModified.entries[r]>>)

\* C5: a response passes exactly one message to the queue when its
\* x-nextjs-cache header is STALE, and none otherwise.
C5_DispatchIffStale ==
    \A r \in Requests :
        Cardinality(SendsOf(r)) =
            IF pc[r] = "done" /\ headers[r].cache = Some("STALE") THEN 1 ELSE 0

C5_Witness ==
    /\ \A r \in Requests : pc[r] = "done"
    /\ \E r \in Requests :
           headers[r].cache = Some("STALE") /\ Cardinality(SendsOf(r)) = 1
    /\ \E r \in Requests :
           headers[r].cache = Some("HIT") /\ Cardinality(SendsOf(r)) = 0

\* C6: a get during which the artifact store or the tag index throws returns
\* absent, and no get throws.
C6_GetFailureIsMiss ==
    lastOp.op = "get" =>
        /\ ~lastOp.threw
        /\ lastOp.fail # 0 => lastOp.result = Null

C6_Witness ==
    /\ lastOp.op = "get"
    /\ lastOp.fail = 2
    /\ ~disableIncrementalCache
    /\ store[lastOp.key].present
    /\ ~InvalidatedAfterWrite(lastOp.key)
    /\ lastOp.result = Null
    /\ ~lastOp.threw

\* C7: no set throws and no artifact write it started is rejected unhandled,
\* whichever collaborator call fails.
C7_SetNeverThrows ==
    lastOp.op \in {"set", "settle"} => ~lastOp.threw

\* C8: a get that follows set(k, a), with the written record in the store
\* and no later invalidation, returns a value equal to a.
C8_SetGetRoundTrip ==
    (/\ lastOp.op = "get"
     /\ ~disableIncrementalCache
     /\ IsSome(written[lastOp.key])
     /\ store[lastOp.key].present
     /\ store[lastOp.key].value = wireRecord(Val(written[lastOp.key]))
     /\ ~InvalidatedAfterWrite(lastOp.key)
     /\ lastOp.fetch = (Val(written[lastOp.key]).kind = "FETCH"))
    => /\ lastOp.result.hit
       /\ lastOp.result.value = Val(written[lastOp.key])

\* C9: with the cache disabled, a get returns absent, a set returns, and
\* neither calls the artifact store or the tag index, which stay as they were.
C9_DisabledTouchesNothing ==
    disableIncrementalCache =>
        /\ lastOp.op \in {"get", "set"} =>
              lastOp.calls = <<>> /\ lastOp.result = Null /\ ~lastOp.threw
        /\ store = [k \in Keys |-> Missing]
        /\ pending = {}
        /\ tagIndex = {}

C9_Witness ==
    /\ disableIncrementalCache
    /\ lastOp.op = "get"
    /\ lastOp.fetch

\* C10: a set writes to the tag index the derived tags that are not bound to
\* the key, under the key, and calls writeTags only when there is such a tag.
C10_WritesOnlyMissingTags ==
    (lastOp.op = "set" /\ ~disableIncrementalCache) =>
        /\ TagsOf(lastOp.wrote) = Range(lastOp.derived) \ lastOp.stored
        /\ \A i \in 1..Len(lastOp.wrote) : lastOp.wrote[i].path = lastOp.key
        /\ ("tag.writeTags" \in Range(lastOp.calls))
              = (Range(lastOp.derived) \ lastOp.stored # {})
        /\ BoundTags(lastOp.key) = lastOp.stored \cup Range(lastOp.derived)

C10_Witness ==
    /\ lastOp.op = "set"
    /\ lastOp.stored # {}
    /\ Range(lastOp.derived) \cap lastOp.stored # {}
    /\ lastOp.wrote # <<>>

C10_WitnessRepeat ==
    /\ lastOp.op = "set"
    /\ lastOp.derived # <<>>
    /\ Range(lastOp.derived) \subseteq lastOp.stored
    /\ "tag.writeTags" \notin Range(lastOp.calls)

\* no un-awaited artifact write of the key is in flight
Landed(key) == \A p \in pending : p.key # key

\* C11: a set whose artifact write has completed and that adds tag bindings
\* for the key leaves no tag item of the key stamped later than the key's
\* write, so the entry is not stale right after the set.
C11_SetWritesNoInvalidation ==
    (/\ lastOp.op = "set"
     /\ ~lastOp.threw
     /\ "client.set" \in Range(lastOp.calls)
     /\ lastOp.wrote # <<>>
     /\ Landed(lastOp.key)
     /\ store[lastOp.key].present)
    => ~InvalidatedAfterWrite(lastOp.key)

\* C12: revalidateTag(t) writes one item (k, t) for every key k bound to t
\* and no other item, and does not call writeTags when no key is bound to t.
C12_RevalidateTagWritesBoundOnly ==
    (lastOp.op = "revalidateTag" /\ ~disableIncrementalCache /\ ~disableDynamoDBCache) =>
        /\ TagsOf(lastOp.wrote) \subseteq {lastOp.tag}
        /\ {lastOp.wrote[i].path : i \in 1..Len(lastOp.wrote)}
              = TagGetByTag(tagIndex, lastOp.tag)
        /\ \A i, j \in 1..Len(lastOp.wrote) : lastOp.wrote[i] = lastOp.wrote[j] => i = j
        /\ TagGetByTag(tagIndex, lastOp.tag) = {}
              => "tag.writeTags" \notin Range(lastOp.calls)

\* C13: a set with a null or absent artifact deletes the key from the
\* artifact store and writes no artifact and no tag item, and every get of
\* the key returns absent until a set of the key with an artifact.
C13_TombstoneIsAbsent ==
    /\ (lastOp.op = "set" /\ "client.delete" \in Range(lastOp.calls)) =>
          /\ ~store[lastOp.key].present
          /\ "client.set" \notin Range(lastOp.calls)
          /\ "tag.writeTags" \notin Range(lastOp.calls)
          /\ lastOp.wrote = <<>>
    /\ (lastOp.op = "get" /\ written[lastOp.key] = None) => lastOp.result = Null

\* C14: the lane id is "revalidate-" followed by an integer in [0, N), N the
\* configured maximum concurrency (10 when unset), and two calls with the
\* same path and the same N yield the same lane id.
C14_LaneInRangeAndDeterministic ==
    /\ \A i \in 1..Len(laneLog) :
           LET N == IF IsSome(laneLog[i].env) THEN parseInt(Val(laneLog[i].env)) ELSE 10
           IN /\ laneLog[i].id[1] = "revalidate-"
              /\ laneLog[i].id[2] \in 0..(N - 1)
    /\ \A i, j \in 1..Len(laneLog) :
           (/\ laneLog[i].path = laneLog[j].path
            /\ laneLog[i].env \in {None, Some(<<"1", "0">>)}
            /\ laneLog[j].env \in {None, Some(<<"1", "0">>)})
           => laneLog[i].id = laneLog[j].id
    /\ \A i, j \in 1..Len(laneLog) :
           (laneLog[i].path = laneLog[j].path /\ laneLog[i].env = laneLog[j].env)
           => laneLog[i].id = laneLog[j].id

C14_Witness ==
    /\ Len(laneLog) = 2
    /\ laneLog[1].path = laneLog[2].path
    /\ laneLog[1].env = None
    /\ laneLog[2].env = Some(<<"1", "0">>)
    /\ laneLog[1].id = laneLog[2].id
    /\ laneLog[1].id[2] > 0

\* the last-modified time that the get of the request recorded
Recorded(r) ==
    IF lastModified.kind = "record" THEN lastModified.entries[r] ELSE None

\* C15: the deduplication ids of two messages whose requests recorded a
\* last-modified time are equal exactly when the requests have the same path
\* and the same recorded last-modified time.
C15_DedupIsFunctionOfPathAndLastModified ==
    \A i, j \in 1..Len(queue) :
        (IsSome(Recorded(queue[i].req)) /\ IsSome(Recorded(queue[j].req))) =>
            ((/\ rawPath[queue[i].req] = rawPath[queue[j].req]
              /\ Recorded(queue[i].req) = Recorded(queue[j].req))
             <=> (queue[i].message.MessageDeduplicationId
                     = queue[j].message.MessageDeduplicationId))

\* C16: the url of a message is the rewritten url when the request was
\* rewritten, between "/_next/data/<build id>" and ".json" for a data
\* request, and the raw path when the request was not rewritten.
C16_RevalidateUrl ==
    \A i \in 1..Len(queue) :
        LET r == queue[i].req
            meta == internalMeta[r]
            url == queue[i].message.MessageBody.url
        IN IF IsSome(meta) /\ Val(meta).didRewrite
           THEN IF Val(meta).isDataPath
                THEN url = <<"/_next/data/", BuildId, Val(meta).rewroteUrl, ".json">>
                ELSE url = <<Val(meta).rewroteUrl>>
           ELSE url = <<rawPath[r]>>

\* C17: a dispatch whose queue.send throws ends normally and leaves the
\* response headers as they were when the response was flushed.
C17_QueueFailureIsCaught ==
    [][\A r \in Requests :
          (/\ pc[r] = "flushed"
           /\ pc'[r] = "done"
           /\ Len(queue') > Len(queue)
           /\ ~queue'[Len(queue')].message.delivered)
          => (headers'[r] = headers[r] /\ ~lastOp'.threw)]_vars

C17_Witness ==
    /\ lastOp.op = "revalidateIfRequired"
    /\ ~lastOp.threw
    /\ queue # <<>>
    /\ queue[Len(queue)].req = lastOp.req
    /\ ~queue[Len(queue)].message.delivered
    /\ pc[lastOp.req] = "done"
    /\ headers[lastOp.req].cacheControl = CCStale

\* the cache-control a HIT response must leave with, given its cache-control
\* string, the recorded last-modified time and the current time
HitCacheControl(directives, lm, t) ==
    LET s == SMaxAge(directives)
        age == RoundSeconds(DateNow(t) - lm)
    IN IF IsSome(s) /\ Val(s) # InfiniteSMaxAge
       THEN CCString(<<DV("s-maxage", Max(Val(s) - age, 1)),
                       DV("stale-while-revalidate", SWRSeconds)>>)
       ELSE CCString(directives)

\* the response of the request is flushed in this step
Flushes(r) == pc[r] = "responding" /\ pc'[r] = "flushed"

\* C18: when a HIT response with a recorded last-modified time and a
\* cache-control string is flushed, its s-maxage becomes
\* max(s-maxage - age, 1) with stale-while-revalidate=2592000, unless the
\* s-maxage is 31536000 or absent.
C18_HitRewritesSMaxAge ==
    [][\A r \in Requests :
          (/\ Flushes(r)
           /\ headers[r].cache = Some("HIT")
           /\ IsSome(Recorded(r))
           /\ headers[r].cacheControl.t = "string"
           /\ rawPath[r] \notin HtmlPages)
          => headers'[r].cacheControl =
                HitCacheControl(fixSWRCacheHeader(headers[r]).cacheControl.d,
                                Val(Recorded(r)), now)]_vars

\* C19: when a HIT response with a recorded last-modified time is flushed,
\* the recorded time is cleared.
C19_HitClearsLastModified ==
    [][\A r \in Requests :
          (Flushes(r) /\ headers[r].cache = Some("HIT") /\ IsSome(Recorded(r)))
          => (lastModified' = LastModifiedNumber(0)
              \/ (lastModified'.kind = "record" /\ lastModified'.entries[r] = None))]_vars

\* C20: a flushed STALE response carries exactly the stale cache-control and
\* a flushed REVALIDATED response exactly the revalidated cache-control.
C20_StaleAndRevalidatedAreExact ==
    \A r \in Requests :
        pc[r] \in {"flushed", "done"} =>
            /\ headers[r].cache = Some("STALE") => headers[r].cacheControl = CCStale
            /\ headers[r].cache = Some("REVALIDATED")
                  => headers[r].cacheControl = CCRevalidated

C20_Witness ==
    /\ pc["r1"] = "flushed"
    /\ pc["r2"] = "flushed"
    /\ rawPath["r2"] = "/b"
    /\ headers["r1"].cache = Some("REVALIDATED")
    /\ headers["r1"].cacheControl = CCRevalidated
    /\ headers["r2"].cache = Some("STALE")
    /\ headers["r2"].cacheControl = CCStale
    /\ IsSome(Recorded("r2"))

\* C21: when the response of a static HTML page path that carries no
\* cache-control header is flushed, and the cache state is not one that gets
\* its own cache-control (STALE, REVALIDATED), it leaves with the HTML page
\* cache-control "public, max-age=0, s-maxage=31536000, must-revalidate".
C21_HtmlPageWithoutCacheControl ==
    [][\A r \in Requests :
          (/\ Flushes(r)
           /\ rawPath[r] \in HtmlPages
           /\ headers[r].cacheControl = CCUndefined
           /\ headers[r].cache \notin {Some("STALE"), Some("REVALIDATED")})
          => headers'[r].cacheControl = CCHtmlPage]_vars

\* C22: an application of fixISRHeaders to a response whose cache state is
\* absent or is none of REVALIDATED, HIT and STALE leaves every header and
\* the recorded last-modified value as they were.
C22_OtherStatesPassThrough ==
    \A i \in 1..Len(policyLog) :
        policyLog[i].headers.cache \notin {Some("REVALIDATED"), Some("HIT"), Some("STALE")}
        => /\ policyLog[i].after.headers = policyLog[i].headers
           /\ policyLog[i].after.lastModified = policyLog[i].lastModified

C22_Witness ==
    /\ policyLog # <<>>
    /\ policyLog[1].headers.cache = Some("MISS")
    /\ policyLog[1].headers.cacheControl
          = CCString(<<DV("s-maxage", 500), D("stale-while-revalidate")>>)
    /\ policyLog[1].lastModified = LastModifiedNumber(DateNow(1))
    /\ policyLog[1].at = 2
    /\ headers["r1"] = policyLog[1].headers
    /\ lastModified = LastModifiedNumber(DateNow(1))

\* C26: a second application of fixISRHeaders to the same response leaves
\* the cache-control header and the recorded last-modified value as the
\* first application left them.
C26_HeaderPolicyIsIdempotent ==
    \A i \in 1..(Len(policyLog) - 1) :
        /\ policyLog[i + 1].after.headers.cacheControl
              = policyLog[i].after.headers.cacheControl
        /\ policyLog[i + 1].after.lastModified = policyLog[i].after.lastModified

C26_Witness ==
    /\ Len(policyLog) = 2
    /\ policyLog[1].headers.cache = Some("HIT")
    /\ policyLog[1].lastModified = LastModifiedNumber(DateNow(1))
    /\ policyLog[1].at = 2
    /\ policyLog[1].headers.cacheControl
          = CCString(<<DV("s-maxage", 500), D("stale-while-revalidate")>>)
    /\ policyLog[1].after.headers.cacheControl
          = CCString(<<DV("s-maxage", 499), DV("stale-while-revalidate", SWRSeconds)>>)
    /\ policyLog[2].headers = policyLog[1].after.headers
    /\ headers["r1"] = policyLog[1].after.headers
    /\ lastModified = LastModifiedNumber(0)

\* the items of a comma-separated list: its maximal runs without a comma
ListItems(str) ==
    {SubSeq(str, i, j) : <<i, j>> \in
        {ij \in (1..(Len(str) + 1)) \X (0..Len(str)) :
            /\ ij[1] <= ij[2] + 1
            /\ \A h \in ij[1]..ij[2] : str[h] # ","
            /\ ij[1] = 1 \/ str[ij[1] - 1] = ","
            /\ ij[2] = Len(str) \/ str[ij[2] + 1] = ","}}

\* C23: the tags a set derives are, for a FETCH value, the tags of the call
\* context when it has tags and else the tags of the value; for a PAGE value,
\* the items of its x-next-cache-tags header; for any other value and for
\* null or undefined, none.
C23_DerivedTagSet ==
    (lastOp.op = "set" /\ ~disableIncrementalCache) =>
        LET data == lastOp.data
            ctx == lastOp.ctx
        IN Range(lastOp.derived) =
              IF KindOf(data) = "FETCH"
              THEN IF IsSome(ctx) /\ IsSome(Val(ctx).tags) THEN Range(Val(Val(ctx).tags))
                   ELSE IF IsSome(data.data.tags) THEN Range(Val(data.data.tags))
                   ELSE {}
              ELSE IF KindOf(data) = "PAGE" /\ IsSome(data.headers)
                      /\ IsSome(Val(data.headers).cacheTags)
              THEN ListItems(Val(Val(data.headers).cacheTags))
              ELSE {}

C23_Witness ==
    /\ lastOp.op = "set"
    /\ ~disableIncrementalCache
    /\ lastOp.data = FetchTagged
    /\ lastOp.ctx = Some(Ctx(Some(<<TagT>>)))
    /\ lastOp.derived = <<TagT>>
    /\ store[lastOp.key].present
    /\ store[lastOp.key].value = FetchTagged
    /\ TagT \in BoundTags(lastOp.key)
    /\ TagU \notin BoundTags(lastOp.key)

\* C24: a get that is not of the fetch variant, of a key whose stored record
\* has none of the types route, page, app and redirect or of a key that has
\* no record, returns absent and does not throw.
C24_UnknownTypeIsMiss ==
    (/\ lastOp.op = "get"
     /\ ~lastOp.fetch
     /\ \/ ~store[lastOp.key].present
        \/ TypeOf(store[lastOp.key].value) \notin {"route", "page", "app", "redirect"})
    => (lastOp.result = Null /\ ~lastOp.threw)

C24_Witness ==
    /\ lastOp.op = "get"
    /\ ~lastOp.fetch
    /\ ~disableIncrementalCache
    /\ store[lastOp.key].present
    /\ store[lastOp.key].value = FetchPlain
    /\ ~InvalidatedAfterWrite(lastOp.key)
    /\ "tag.getLastModified" \in Range(lastOp.calls)
    /\ lastOp.result = Null
    /\ ~lastOp.threw

\* C25: when a set that called client.set has returned, the artifact write
\* it issued has completed: no write of the key is in flight.
C25_SetAwaitsArtifactWrite ==
    (lastOp.op = "set" /\ ~lastOp.threw /\ "client.set" \in Range(lastOp.calls))
    => Landed(lastOp.key)

\* C27: a get that returns absent leaves the recorded last-modified values
\* as they were, and so does every get of the fetch variant.
C27_AbsentGetRecordsNothing ==
    [][(lastOp'.op = "get" /\ (lastOp'.result = Null \/ lastOp'.fetch))
          => lastModified' = lastModified]_vars

====
